---- MODULE Spec2Model ----
(***************************************************************************)
(* Model of the externalDocsUrl bookmarklet (most evolved variant,         *)
(* src/unnamed/part_002 lines 1-332).                                      *)
(*                                                                         *)
(* A JavaScript string is a sequence of one-character strings.  Inside     *)
(* decodeURI / encodeURI a string is a sequence of code points (integers), *)
(* because decoding can produce characters outside printable ASCII.        *)
(***************************************************************************)
EXTENDS Integers, Sequences, FiniteSets, TLC

(***************************************************************************)
(* Bounds of the model                                                     *)
(***************************************************************************)
\* largest number of units a raw path of the sanitizer specification is built from
MaxUnits == 3

\* largest number of pieces a text of the fragment specification is built from
MaxPieces == 3

\* largest number of invocations of the bookmarklet in one page lifetime
MaxInvocations == 3

\* largest number of page-address changes in one page lifetime
MaxNavigations == 2

\* largest number of units a text of the scanner specification is built from
MaxScan == 4

\* largest number of candidate nodes whose processing throws in one page lifetime
MaxFailures == 1

\* largest number of pointer events (clicks and mouse moves) in one page lifetime
MaxEvents == 2

(***************************************************************************)
(* State                                                                   *)
(***************************************************************************)
VARIABLES
  docsBaseUrl,   \* the documentation root in use (DOCS_BASE_URL in the shipped script)
  href,          \* location.href
  ran,           \* window.__externalDocsUrlBookmarkletRan
  dom,           \* the nodes ever created, by identity: tag, classes, parent, children, text
  pc,            \* position of the running invocation: Idle when none runs
  nodes,         \* resolveExternalDocsUrls: the candidate nodes collected
  idx,           \* resolveExternalDocsUrls: position of the for loop in nodes
  replaced,      \* resolveExternalDocsUrls: the counter replaced
  injectedLinks, \* the link registries of all invocations, each entry with its invocation
  handlers,      \* the invocations whose delegated handlers are installed on the document
  console,       \* console output: log, warn and error entries in order
  invocations,   \* history: number of times the bookmarklet was invoked
  navigations,   \* history: number of page-address changes
  passLog,       \* history: the page address of every pass that passed the guard
  navigated,     \* history: has the address changed since the last invocation
  lastPass,      \* history: how the most recent pass ended (none, running, done, failed;
                 \* hurt while a node of it has thrown, partial once it ended so)
  failures,      \* history: number of candidate nodes whose processing threw
  again,         \* history: did the running or most recent pass begin on the document
                 \* as a pass that ended done had left it
  skipped,       \* history: the invocations the guard stopped: how the pass before
                 \* had ended, and whether the address had changed since the last one
  rendered,      \* history: has the host rendered a page since the last pass began
  closures,      \* installDelegatedHandlers: lastCursorTarget and savedCursor of every
                 \* installed pair of handlers, in the order of handlers
  opened,        \* the URLs the last click handed to window.open, in order
  hostRan,       \* the click listeners of the host page that ran on the last click
  lastEvent,     \* history: the last pointer event, its kind and its point
  events,        \* history: number of pointer events
  bldText,       \* fragment specification: the pieces the text is made of
  bldOut,        \* fragment specification: the result of buildFragmentFromMatches
  sanIn,         \* sanitizer specification: the raw path handed to sanitizePath
  sanOut,        \* sanitizer specification: the results of the successive applications
  scnText,       \* scanner specification: the units the text is made of
  scnOut         \* scanner specification: the matches of the text

machineVars ==
  <<href, ran, dom, pc, nodes, idx, replaced, injectedLinks, handlers, console,
    invocations, navigations, passLog, navigated, lastPass, skipped, rendered,
    failures, again, closures, opened, hostRan, lastEvent, events>>

\* the variables of the pointer events
pointerVars == <<closures, opened, hostRan, lastEvent, events>>

\* the variables of the specifications of the pure functions
pureVars == <<bldText, bldOut, sanIn, sanOut, scnText, scnOut>>

vars == <<docsBaseUrl, machineVars, pureVars>>

(***************************************************************************)
(* Characters                                                              *)
(***************************************************************************)
\* the printable ASCII characters, code points 32..126 in order; code point 96
\* (grave accent) is written "grave": that character opens a quotation in the
\* module's syntax, and no string of the program's alphabets contains it
Printable ==
  << " ", "!", "\"", "#", "$", "%", "&", "'", "(", ")", "*", "+", ",", "-", ".", "/",
     "0", "1", "2", "3", "4", "5", "6", "7", "8", "9", ":", ";", "<", "=", ">", "?",
     "@", "A", "B", "C", "D", "E", "F", "G", "H", "I", "J", "K", "L", "M", "N", "O",
     "P", "Q", "R", "S", "T", "U", "V", "W", "X", "Y", "Z", "[", "\\", "]", "^", "_",
     "grave", "a", "b", "c", "d", "e", "f", "g", "h", "i", "j", "k", "l", "m", "n", "o",
     "p", "q", "r", "s", "t", "u", "v", "w", "x", "y", "z", "{", "|", "}", "~" >>

\* code point of a printable ASCII character
Ord(c) == 31 + (CHOOSE i \in 1..Len(Printable) : Printable[i] = c)

\* printable ASCII character of a code point in 32..126
Chr(n) == Printable[n - 31]

\* a string as the sequence of its code points
Codes(s) == [i \in 1..Len(s) |-> Ord(s[i])]

\* the characters of a sequence, as a set
CharsOf(s) == {s[i] : i \in 1..Len(s)}

Digits == CharsOf(<<"0", "1", "2", "3", "4", "5", "6", "7", "8", "9">>)

UpperAlpha ==
  CharsOf(<<"A", "B", "C", "D", "E", "F", "G", "H", "I", "J", "K", "L", "M",
            "N", "O", "P", "Q", "R", "S", "T", "U", "V", "W", "X", "Y", "Z">>)

LowerAlpha ==
  CharsOf(<<"a", "b", "c", "d", "e", "f", "g", "h", "i", "j", "k", "l", "m",
            "n", "o", "p", "q", "r", "s", "t", "u", "v", "w", "x", "y", "z">>)

\* s[from..to], empty when to < from (String.prototype.slice on in-range indices)
Slice(s, from, to) == IF to < from THEN << >> ELSE SubSeq(s, from, to)

RECURSIVE FlattenFrom(_, _)
FlattenFrom(ss, i) == IF i > Len(ss) THEN << >> ELSE ss[i] \o FlattenFrom(ss, i + 1)

\* concatenation of a sequence of strings
Flatten(ss) == FlattenFrom(ss, 1)

\* F(e), with e evaluated once: the value of a local constant of the source
With(e, F(_)) == CHOOSE r \in {F(x) : x \in {e}} : TRUE

(***************************************************************************)
(* decodeURI and encodeURI (ECMAScript Decode / Encode)                    *)
(***************************************************************************)
HexDigits == <<"0", "1", "2", "3", "4", "5", "6", "7", "8", "9", "A", "B", "C", "D", "E", "F">>

IsHexCode(n) ==
  \/ n \in {Ord(c) : c \in Digits}
  \/ n \in {Ord(c) : c \in CharsOf(<<"A", "B", "C", "D", "E", "F">>)}
  \/ n \in {Ord(c) : c \in CharsOf(<<"a", "b", "c", "d", "e", "f">>)}

\* value of a hexadecimal digit given by its code point
HexVal(n) ==
  IF n \in {Ord(c) : c \in Digits} THEN n - Ord("0")
  ELSE IF n >= Ord("a") THEN n - Ord("a") + 10
  ELSE n - Ord("A") + 10

\* uriReserved plus "#": the characters decodeURI leaves escaped
DecodeReserved == {Ord(c) : c \in CharsOf(<<";", "/", "?", ":", "@", "&", "=", "+", "$", ",", "#">>)}

\* uriReserved, uriUnescaped and "#": the characters encodeURI leaves alone
EncodeUnreserved ==
  DecodeReserved
    \cup {Ord(c) : c \in Digits \cup UpperAlpha \cup LowerAlpha}
    \cup {Ord(c) : c \in CharsOf(<<"-", "_", ".", "!", "~", "*", "'", "(", ")">>)}

\* what the model's decodeURI returns in place of throwing URIError
\* (no code point is negative)
DecodeError == <<0 - 1>>

\* what the model's encodeURI returns in place of throwing URIError
\* (no character is longer than one)
EncodeError == <<"URIError">>

\* what Utf8Decode returns for octets that encode no code point
NoCodePoint == 0 - 1

\* is s[k..k+2] a percent sign followed by two hexadecimal digits
IsEscapeAt(s, k) ==
  /\ k + 2 <= Len(s)
  /\ s[k] = Ord("%")
  /\ IsHexCode(s[k + 1])
  /\ IsHexCode(s[k + 2])

\* the octet written by the escape at s[k..k+2]
OctetAt(s, k) == 16 * HexVal(s[k + 1]) + HexVal(s[k + 2])

\* number of leading 1 bits of an octet
LeadingOnes(b) ==
  IF b < 128 THEN 0
  ELSE IF b < 192 THEN 1
  ELSE IF b < 224 THEN 2
  ELSE IF b < 240 THEN 3
  ELSE IF b < 248 THEN 4
  ELSE 5

\* octets of the n escapes that start at s[k], or DecodeError when one is missing
EscapedOctets(s, k, n) ==
  IF \A j \in 0..(n - 1) : IsEscapeAt(s, k + 3 * j)
  THEN [j \in 1..n |-> OctetAt(s, k + 3 * (j - 1))]
  ELSE DecodeError

\* code point a well-formed UTF-8 sequence of 2..4 octets encodes, or NoCodePoint
Utf8Decode(o) ==
  LET n == Len(o)
      contOk == \A j \in 2..n : o[j] \in 128..191
      v == IF n = 2 THEN (o[1] - 192) * 64 + (o[2] - 128)
           ELSE IF n = 3 THEN (o[1] - 224) * 4096 + (o[2] - 128) * 64 + (o[3] - 128)
           ELSE (o[1] - 240) * 262144 + (o[2] - 128) * 4096
                  + (o[3] - 128) * 64 + (o[4] - 128)
      least == IF n = 2 THEN 128 ELSE IF n = 3 THEN 2048 ELSE 65536
  IN  IF /\ contOk
         /\ v >= least
         /\ v <= 1114111
         /\ v \notin 55296..57343
      THEN v
      ELSE NoCodePoint

\* octets of the UTF-8 encoding of a code point
Utf8Encode(v) ==
  IF v < 128 THEN <<v>>
  ELSE IF v < 2048 THEN <<192 + (v \div 64), 128 + (v % 64)>>
  ELSE IF v < 65536
    THEN <<224 + (v \div 4096), 128 + ((v \div 64) % 64), 128 + (v % 64)>>
  ELSE <<240 + (v \div 262144), 128 + ((v \div 4096) % 64),
         128 + ((v \div 64) % 64), 128 + (v % 64)>>

\* number of characters the unit at s[k] takes: 1 for a plain character, 3 for
\* the escape of an ASCII octet, 3n for the escapes of a UTF-8 sequence of n
\* octets; 0 when Decode throws URIError there
UnitLen(s, k) ==
  IF s[k] # Ord("%") THEN 1
  ELSE IF ~IsEscapeAt(s, k) THEN 0
  ELSE LET n == LeadingOnes(OctetAt(s, k))
       IN  IF n = 0 THEN 3
           ELSE IF n = 1 \/ n > 4 THEN 0
           ELSE IF EscapedOctets(s, k, n) = DecodeError THEN 0
           ELSE IF Utf8Decode(EscapedOctets(s, k, n)) = NoCodePoint THEN 0
           ELSE 3 * n

\* the code points the unit at s[k] decodes to: an escaped reserved character
\* stays the escape it was
UnitValue(s, k) ==
  IF s[k] # Ord("%") THEN <<s[k]>>
  ELSE LET b == OctetAt(s, k)
           n == LeadingOnes(b)
       IN  IF n = 0
             THEN IF b \in DecodeReserved THEN SubSeq(s, k, k + 2) ELSE <<b>>
           ELSE <<Utf8Decode(EscapedOctets(s, k, n))>>

RECURSIVE DecodeThrows(_, _)
\* does ECMAScript Decode throw URIError from index k on
DecodeThrows(s, k) ==
  /\ k <= Len(s)
  /\ \E len \in {UnitLen(s, k)} : len = 0 \/ DecodeThrows(s, k + len)

RECURSIVE DecodeFrom(_, _)
\* the code points ECMAScript Decode produces from index k on, when it does not throw
DecodeFrom(s, k) ==
  IF k > Len(s) THEN << >>
  ELSE UnitValue(s, k) \o With(k + UnitLen(s, k), LAMBDA next : DecodeFrom(s, next))

\* decodeURI on a string of code points: code points, or DecodeError
decodeURI(s) ==
  With(s, LAMBDA str : IF DecodeThrows(str, 1) THEN DecodeError ELSE DecodeFrom(str, 1))

\* the escape "%XX" of an octet, upper-case hexadecimal
EscapeOctet(b) == <<"%", HexDigits[(b \div 16) + 1], HexDigits[(b % 16) + 1]>>

RECURSIVE EscapeOctets(_)
EscapeOctets(o) == IF o = << >> THEN << >> ELSE EscapeOctet(Head(o)) \o EscapeOctets(Tail(o))

RECURSIVE EncodeFrom(_, _)
\* the characters ECMAScript Encode produces from index k on
EncodeFrom(s, k) ==
  IF k > Len(s) THEN << >>
  ELSE (IF s[k] \in EncodeUnreserved THEN <<Chr(s[k])>> ELSE EscapeOctets(Utf8Encode(s[k])))
         \o EncodeFrom(s, k + 1)

\* encodeURI on a string of code points: a string of ASCII characters, or
\* EncodeError for a string with a surrogate on its own
encodeURI(s) ==
  With(s, LAMBDA str :
    IF \E k \in 1..Len(str) : str[k] \in 55296..57343 THEN EncodeError
    ELSE EncodeFrom(str, 1))

(***************************************************************************)
(* Path Sanitizer                                                          *)
(***************************************************************************)
\* a sanitizer that skips the decoding step
sanitizePathNoDecode(raw) ==
  With(encodeURI(Codes(raw)), LAMBDA e : IF e = EncodeError THEN raw ELSE e)

\* sanitizePath: encodeURI(decodeURI(raw)), the raw path when either throws
sanitizePath(raw) ==
  With(decodeURI(Codes(raw)), LAMBDA d :
    IF d = DecodeError THEN raw
    ELSE With(encodeURI(d), LAMBDA e : IF e = EncodeError THEN raw ELSE e))

(***************************************************************************)
(* Placeholder Scanner                                                     *)
(***************************************************************************)
\* DOCS_BASE_URL, the documentation root every link starts with
DOCS_BASE_URL ==
  << "h", "t", "t", "p", "s", ":", "/", "/", "d", "o", "c", "s", ".", "g", "i", "t",
     "h", "u", "b", ".", "c", "o", "m", "/", "e", "n", "/", "e", "n", "t", "e", "r",
     "p", "r", "i", "s", "e", "-", "c", "l", "o", "u", "d", "@", "l", "a", "t", "e",
     "s", "t", "/" >>

\* PLACEHOLDER, the literal marker ${externalDocsUrl}
PLACEHOLDER ==
  << "$", "{", "e", "x", "t", "e", "r", "n", "a", "l", "D", "o", "c", "s", "U", "r", "l", "}" >>

\* the character class [\w./#?&=%+~:,-] of PLACEHOLDER_PATTERN
PathChars ==
  Digits \cup UpperAlpha \cup LowerAlpha
    \cup CharsOf(<<"_", ".", "/", "#", "?", "&", "=", "%", "+", "~", ":", ",", "-">>)

\* does text hold the string pre at index k
HasAt(text, k, pre) ==
  /\ k + Len(pre) - 1 <= Len(text)
  /\ \A i \in 1..Len(pre) : text[k + i - 1] = pre[i]

\* can PLACEHOLDER_PATTERN match at index k: the marker, "/", one path character
MatchStartsAt(text, k) ==
  /\ HasAt(text, k, PLACEHOLDER \o <<"/">>)
  /\ k + Len(PLACEHOLDER) + 1 <= Len(text)
  /\ text[k + Len(PLACEHOLDER) + 1] \in PathChars

\* a run that stops after its first character
RunEndAtOnce(text, k) == k

RECURSIVE RunEnd(_, _)
\* index of the last character of the greedy run [\w./#?&=%+~:,-]+ that starts at k
RunEnd(text, k) ==
  IF k + 1 <= Len(text) /\ text[k + 1] \in PathChars THEN RunEnd(text, k + 1) ELSE k

RECURSIVE matchAllFrom(_, _)
\* text.matchAll(PLACEHOLDER_PATTERN) from index k on: the matches left to right,
\* each with its index (1-based), its whole text (match[0]) and its path (match[1])
matchAllFrom(text, k) ==
  IF k > Len(text) THEN << >>
  ELSE IF ~MatchStartsAt(text, k) THEN matchAllFrom(text, k + 1)
  ELSE With(RunEnd(text, k + Len(PLACEHOLDER) + 1), LAMBDA e :
         << [index |-> k, all |-> SubSeq(text, k, e),
             path |-> SubSeq(text, k + Len(PLACEHOLDER) + 1, e)] >>
           \o matchAllFrom(text, e + 1))

matchAll(text) == With(text, LAMBDA t : matchAllFrom(t, 1))

(***************************************************************************)
(* URL validation: new URL(url) with no base                               *)
(***************************************************************************)
UpperSeq ==
  << "A", "B", "C", "D", "E", "F", "G", "H", "I", "J", "K", "L", "M",
     "N", "O", "P", "Q", "R", "S", "T", "U", "V", "W", "X", "Y", "Z" >>

LowerSeq ==
  << "a", "b", "c", "d", "e", "f", "g", "h", "i", "j", "k", "l", "m",
     "n", "o", "p", "q", "r", "s", "t", "u", "v", "w", "x", "y", "z" >>

ToLower(c) ==
  IF c \in UpperAlpha THEN LowerSeq[CHOOSE i \in 1..Len(UpperSeq) : UpperSeq[i] = c] ELSE c

\* the schemes whose URLs must name a host
HostSchemes ==
  { <<"h", "t", "t", "p">>, <<"h", "t", "t", "p", "s">>, <<"f", "t", "p">>,
    <<"w", "s">>, <<"w", "s", "s">> }

\* index of the ":" that ends the scheme of url, 0 when url has no scheme
\* (scheme start state and scheme state of the URL parser)
SchemeEnd(url) ==
  LET ends == { i \in 2..Len(url) :
                  /\ url[i] = ":"
                  /\ url[1] \in UpperAlpha \cup LowerAlpha
                  /\ \A j \in 2..(i - 1) :
                       url[j] \in UpperAlpha \cup LowerAlpha \cup Digits \cup {"+", "-", "."} }
  IN  IF ends = { } THEN 0 ELSE CHOOSE i \in ends : \A j \in ends : i <= j

RECURSIVE SkipSlashes(_, _)
\* first index from k on that holds no slash
SkipSlashes(url, k) ==
  IF k <= Len(url) /\ url[k] \in {"/", "\\"} THEN SkipSlashes(url, k + 1) ELSE k

RECURSIVE AuthorityEnd(_, _)
\* index after the authority that starts at k: it runs up to "/", "?", "#" or the end
AuthorityEnd(url, k) ==
  IF k <= Len(url) /\ url[k] \notin {"/", "\\", "?", "#"} THEN AuthorityEnd(url, k + 1) ELSE k

\* does the authority parse: a domain of letters, digits, "." and "-", then an
\* optional ":" and a port of at most five digits below 65536.  Authorities with
\* credentials, brackets or escapes are outside the model and count as failures.
AuthorityParses(auth, hostNeeded) ==
  LET colons == {i \in 1..Len(auth) : auth[i] = ":"}
      hostLen == IF colons = { } THEN Len(auth)
                 ELSE (CHOOSE i \in colons : \A j \in colons : i <= j) - 1
      host == SubSeq(auth, 1, hostLen)
      port == Slice(auth, hostLen + 2, Len(auth))
  IN  /\ \A i \in 1..Len(host) :
           host[i] \in UpperAlpha \cup LowerAlpha \cup Digits \cup {".", "-"}
      /\ hostNeeded => Len(host) > 0
      /\ \A i \in 1..Len(port) : port[i] \in Digits
      /\ Len(port) <= 4 \/ (Len(port) = 5 /\ port[1] \in {"0", "1", "2", "3", "4", "5"})

\* does new URL(url) return (TRUE) or throw TypeError (FALSE)
URLParses(url) ==
  LET e == SchemeEnd(url)
      scheme == [i \in 1..(e - 1) |-> ToLower(url[i])]
  IN  IF e = 0 THEN FALSE
      ELSE IF scheme \in HostSchemes
        THEN LET a == SkipSlashes(url, e + 1)
             IN  AuthorityParses(Slice(url, a, AuthorityEnd(url, a) - 1), TRUE)
      ELSE IF HasAt(url, e + 1, <<"/", "/">>)
        THEN AuthorityParses(Slice(url, e + 3, AuthorityEnd(url, e + 3) - 1), FALSE)
      ELSE TRUE

(***************************************************************************)
(* Replacement Engine: the fragment built for one text                     *)
(***************************************************************************)
\* a plain-text child of the fragment: fragment.append(string)
TextPiece(s) == [kind |-> "text", value |-> s, url |-> << >>]

\* a link child of the fragment: createDocsLink(url), displayed as the URL itself
LinkPiece(u) == [kind |-> "link", value |-> u, url |-> u]

\* the matched text kept as plain text after console.warn, with the URL that failed
KeptPiece(s, u) == [kind |-> "kept", value |-> s, url |-> u]

\* a link made of the URL without validating it
DocsPieceUnchecked(m, u) == LinkPiece(u)

\* the try / catch around new URL(url): a link, or the matched text when it throws
DocsPiece(m, u) == IF URLParses(u) THEN LinkPiece(u) ELSE KeptPiece(m.all, u)

\* the trailing text dropped
TrailingPieceDropped(text, last) == << >>

\* the text after the last match, if any: text.slice(lastIndex)
TrailingPiece(text, last) ==
  IF last <= Len(text) THEN <<TextPiece(SubSeq(text, last, Len(text)))>> ELSE << >>

\* the URL built for a match: DOCS_BASE_URL + sanitizePath(path)
DocsUrl(m) == docsBaseUrl \o sanitizePath(m.path)

RECURSIVE FragmentLoop(_, _, _, _)
\* the loop over the matches ms from the i-th on; last is the index of the first
\* character not yet copied (lastIndex + 1)
FragmentLoop(text, ms, i, last) ==
  IF i > Len(ms) THEN TrailingPiece(text, last)
  ELSE (IF ms[i].index > last
        THEN <<TextPiece(SubSeq(text, last, ms[i].index - 1))>>
        ELSE << >>)
         \o <<With(DocsUrl(ms[i]), LAMBDA u : DocsPiece(ms[i], u))>>
         \o FragmentLoop(text, ms, i + 1, ms[i].index + Len(ms[i].all))

\* buildFragmentFromMatches: the children of the fragment, matched FALSE for null
buildFragmentFromMatches(text) ==
  With(matchAll(text), LAMBDA ms :
    [matched |-> ms # << >>,
     pieces |-> IF ms = << >> THEN << >> ELSE FragmentLoop(text, ms, 1, 1)])

(***************************************************************************)
(* The document tree                                                       *)
(***************************************************************************)
\* null, as the value of parentNode, parentElement and document.body
NoNode == 0

\* the identity of the document node, the root of every connected node
Document == 1

\* CODE_VIEW_SELECTOR: the classes of the code view containers
CODE_VIEW_SELECTOR ==
  {"blob-wrapper", "highlight", "react-code-lines", "react-blob-print-hide"}

NON_RENDERED_TAGS == {"SCRIPT", "STYLE", "TEMPLATE", "NOSCRIPT", "TEXTAREA"}

\* a node: cursor is element.style.cursor, set by the host on the overlay it
\* lays over the code for text selection
Node(tag, cls, parent, kids, value, link) ==
  [tag |-> tag, cls |-> cls, parent |-> parent, kids |-> kids, value |-> value, href |-> link,
   cursor |-> IF tag = "TEXTAREA" THEN "text" ELSE ""]

\* the elements of a sequence, as a set
Range(q) == {q[i] : i \in 1..Len(q)}

RECURSIVE isConnected(_, _)
\* Node.isConnected: is the document the root of n
isConnected(d, n) ==
  IF n = Document THEN TRUE
  ELSE IF d[n].parent = NoNode THEN FALSE
  ELSE isConnected(d, d[n].parent)

\* Node.parentElement: the parent when it is an element
parentElement(d, n) == IF d[n].parent = Document THEN NoNode ELSE d[n].parent

RECURSIVE SubtreeFrom(_, _, _)
\* the i-th and later children of n with their descendants, in document order
SubtreeFrom(d, n, i) ==
  IF i > Len(d[n].kids) THEN << >>
  ELSE <<d[n].kids[i]>> \o SubtreeFrom(d, d[n].kids[i], 1) \o SubtreeFrom(d, n, i + 1)

\* n and its descendants in document order
Subtree(d, n) == <<n>> \o SubtreeFrom(d, n, 1)

\* the anchor test on the parent alone
closestParentOnly(d, e) == IF e # NoNode /\ d[e].tag = "A" THEN e ELSE NoNode

\* a closest('a') that finds no <a>
closestNever(d, e) == NoNode

RECURSIVE closest(_, _)
\* Element.closest('a') on e: e or its nearest ancestor that is an <a>, else null
closest(d, e) ==
  IF e = NoNode \/ e = Document THEN NoNode
  ELSE IF d[e].tag = "A" THEN e
  ELSE closest(d, d[e].parent)

\* String.prototype.includes
includes(text, sub) == \E k \in 1..Len(text) : HasAt(text, k, sub)

\* the acceptNode callback of the tree walker, on a text node n
acceptNode(d, n) ==
  LET pe == parentElement(d, n)
  IN  IF pe # NoNode /\ d[pe].tag \in NON_RENDERED_TAGS THEN "FILTER_REJECT"
      ELSE IF closest(d, pe) # NoNode THEN "FILTER_SKIP"
      ELSE IF includes(d[n].value, PLACEHOLDER) THEN "FILTER_ACCEPT"
      ELSE "FILTER_SKIP"

\* the nodes walker.nextNode() returns for createTreeWalker(scope, SHOW_TEXT, filter):
\* the accepted text nodes below scope, in document order
WalkerNodes(d, scope) ==
  SelectSeq(Tail(Subtree(d, scope)),
            LAMBDA n : d[n].tag = "#text" /\ acceptNode(d, n) = "FILTER_ACCEPT")

\* document.querySelectorAll(CODE_VIEW_SELECTOR)
querySelectorAll(d) ==
  SelectSeq(Tail(Subtree(d, Document)),
            LAMBDA n : d[n].tag # "#text" /\ d[n].cls \cap CODE_VIEW_SELECTOR # { })

\* document.body
body(d) ==
  LET bs == SelectSeq(d[Document].kids, LAMBDA n : d[n].tag = "BODY")
  IN  IF bs = << >> THEN NoNode ELSE Head(bs)

\* document.querySelector in place of querySelectorAll: the first container alone
findFirstCodeContainer(d) ==
  LET containers == querySelectorAll(d)
  IN  IF containers # << >> THEN <<Head(containers)>> ELSE <<body(d)>>

\* findCodeContainers
findCodeContainers(d) ==
  LET containers == querySelectorAll(d)
  IN  IF containers # << >> THEN containers ELSE <<body(d)>>

RECURSIVE collectIntoNoSeen(_, _, _)
\* the loop over the scopes without the Set seen
collectIntoNoSeen(d, scopes, acc) ==
  IF scopes = << >> THEN acc
  ELSE With(acc \o WalkerNodes(d, Head(scopes)),
            LAMBDA all : collectIntoNoSeen(d, Tail(scopes), all))

RECURSIVE collectInto(_, _, _)
\* the loop of collectMatchingNodes over the scopes; acc is nodes (and seen)
collectInto(d, scopes, acc) ==
  IF scopes = << >> THEN acc
  ELSE With(acc \o SelectSeq(WalkerNodes(d, Head(scopes)), LAMBDA n : n \notin Range(acc)),
            LAMBDA seen : collectInto(d, Tail(scopes), seen))

collectMatchingNodes(d, scopes) ==
  With(scopes, LAMBDA ss : collectInto(d, ss, << >>))

RECURSIVE FragmentNodes(_, _, _, _)
\* the nodes of the i-th and later pieces of a fragment once inserted below par,
\* the first one identified next: a text node for a text piece, an <a> and the
\* text node of its textContent for a link
FragmentNodes(pieces, i, par, next) ==
  IF i > Len(pieces) THEN << >>
  ELSE IF pieces[i].kind = "link"
    THEN << Node("A", { }, par, <<next + 1>>, << >>, pieces[i].url),
            Node("#text", { }, next, << >>, pieces[i].value, << >>) >>
           \o FragmentNodes(pieces, i + 1, par, next + 2)
  ELSE << Node("#text", { }, par, << >>, pieces[i].value, << >>) >>
         \o FragmentNodes(pieces, i + 1, par, next + 1)

\* parent.replaceChild(fragment, n): the tree with the nodes fresh in place of n
replaceChild(d, n, fresh) ==
  LET par == d[n].parent
      first == Len(d) + 1
      top == SelectSeq([i \in 1..Len(fresh) |-> first + i - 1],
                       LAMBDA i : fresh[i - first + 1].parent = par)
      at == CHOOSE i \in 1..Len(d[par].kids) : d[par].kids[i] = n
      kids == SubSeq(d[par].kids, 1, at - 1) \o top
                \o SubSeq(d[par].kids, at + 1, Len(d[par].kids))
  IN  [i \in 1..Len(d) |->
         IF i = par THEN [d[i] EXCEPT !.kids = kids]
         ELSE IF i = n THEN [d[i] EXCEPT !.parent = NoNode]
         ELSE d[i]] \o fresh

\* what replaceTextNodeWithDocsLinks leaves behind when it returns false
Untouched(d) == [dom |-> d, links |-> << >>, warnings |-> << >>, result |-> FALSE]

\* the registry entries createDocsLink pushed for the links among the nodes fresh
LinksPushed(d, fresh, run) ==
  With(SelectSeq([i \in 1..Len(fresh) |-> i], LAMBDA i : fresh[i].tag = "A"), LAMBDA at :
    [i \in 1..Len(at) |->
       [element |-> Len(d) + at[i], url |-> fresh[at[i]].href, run |-> run]])

\* the console.warn entries of the matches whose URL failed validation
Warnings(pieces) ==
  With(SelectSeq(pieces, LAMBDA p : p.kind = "kept"), LAMBDA kept :
    [i \in 1..Len(kept) |->
       [level |-> "warn", count |-> 0, href |-> "", url |-> kept[i].url]])

\* replaceTextNodeWithDocsLinks(n) in invocation run: the tree afterwards, the
\* registry entries createDocsLink pushed, the warnings, and the value returned
replaceTextNodeWithDocsLinks(d, n, run) ==
  IF d[n].parent = NoNode THEN Untouched(d)
  ELSE With(buildFragmentFromMatches(d[n].value), LAMBDA f :
         IF ~f.matched THEN Untouched(d)
         ELSE With(FragmentNodes(f.pieces, 1, d[n].parent, Len(d) + 1), LAMBDA fresh :
                [dom |-> replaceChild(d, n, fresh),
                 links |-> LinksPushed(d, fresh, run),
                 warnings |-> Warnings(f.pieces),
                 result |-> TRUE]))

\* the console.warn entry of the catch of replaceTextNodeWithDocsLinks
SkipWarning == [level |-> "warn", count |-> 0, href |-> "skipping node", url |-> << >>]

\* the calls of replaceTextNodeWithDocsLinks(n) that can throw: the building of
\* the fragment, and replaceChild once the fragment and its links are made
ThrowPoints(d, n) ==
  {"build"} \cup
    (IF d[n].parent # NoNode /\ matchAll(d[n].value) # << >> THEN {"replaceChild"} ELSE { })

\* replaceTextNodeWithDocsLinks(n) when the call at throws and the catch takes
\* over: the links made until then exist and are registered, but are in no tree
replaceTextNodeThrows(d, n, run, at) ==
  IF at = "replaceChild"
  THEN With(buildFragmentFromMatches(d[n].value), LAMBDA f :
         With(FragmentNodes(f.pieces, 1, NoNode, Len(d) + 1), LAMBDA fresh :
           [dom |-> d \o fresh,
            links |-> LinksPushed(d, fresh, run),
            warnings |-> Warnings(f.pieces) \o <<SkipWarning>>,
            result |-> FALSE]))
  ELSE [dom |-> d, links |-> << >>, warnings |-> <<SkipWarning>>, result |-> FALSE]

(***************************************************************************)
(* The host page                                                           *)
(***************************************************************************)
\* the page addresses of the model
Addresses == {"addrA", "addrB"}

\* the value of window.__externalDocsUrlBookmarkletRan before the first pass
Undefined == "undefined"

\* text with one placeholder: ${externalDocsUrl}/a
TextOne == PLACEHOLDER \o <<"/", "a">>

\* text with two placeholders, the first one with a pre-encoded space and closed
\* by a parenthesis: (${externalDocsUrl}/a%20b) ${externalDocsUrl}/c
TextTwo ==
  <<"(">> \o PLACEHOLDER \o <<"/", "a", "%", "2", "0", "b", ")", " ">>
    \o PLACEHOLDER \o <<"/", "c">>

\* text with the marker and no path: ${externalDocsUrl} x
TextMarker == PLACEHOLDER \o <<" ", "x">>

TextPlain == <<"p", "l", "a", "i", "n">>

\* a node of a page as the host renders it: its parent is a position in the page,
\* 0 for a child of the document
Spot(tag, cls, parent, value) == [tag |-> tag, cls |-> cls, parent |-> parent, value |-> value]

\* a code view page: nested containers, text in an anchor, in a script, in a span
\* of a noscript, text with the bare marker, a placeholder outside the containers,
\* and the overlay the host lays over the code, which receives the pointer events
PageCode ==
  << Spot("BODY", { }, 0, << >>),
     Spot("DIV", {"blob-wrapper"}, 1, << >>),
     Spot("DIV", {"highlight"}, 2, << >>),
     Spot("#text", { }, 3, TextTwo),
     Spot("A", { }, 2, << >>),
     Spot("SPAN", { }, 5, << >>),
     Spot("#text", { }, 6, TextOne),
     Spot("SCRIPT", { }, 2, << >>),
     Spot("#text", { }, 8, TextOne),
     Spot("NOSCRIPT", { }, 2, << >>),
     Spot("SPAN", { }, 10, << >>),
     Spot("#text", { }, 11, TextOne),
     Spot("#text", { }, 2, TextMarker),
     Spot("#text", { }, 1, TextOne),
     Spot("TEXTAREA", { }, 2, << >>) >>

\* a page with two code view containers side by side under an overlay
PageTwo ==
  << Spot("BODY", { }, 0, << >>),
     Spot("DIV", {"highlight"}, 1, << >>),
     Spot("#text", { }, 2, TextOne),
     Spot("DIV", {"react-code-lines"}, 1, << >>),
     Spot("#text", { }, 4, TextOne),
     Spot("TEXTAREA", { }, 1, << >>) >>

\* a page with no code view container: the scan falls back to the body
PagePlain ==
  << Spot("BODY", { }, 0, << >>),
     Spot("#text", { }, 1, TextOne),
     Spot("SCRIPT", { }, 1, << >>),
     Spot("#text", { }, 3, TextOne),
     Spot("A", { }, 1, << >>),
     Spot("#text", { }, 5, TextOne),
     Spot("P", { }, 1, << >>),
     Spot("#text", { }, 7, TextPlain) >>

\* a document with no body element and no container: document.body is null
PageNoBody == << >>

Pages == {PageCode, PageTwo, PagePlain, PageNoBody}

\* the nodes of a page, the first one identified base + 1
PageNodes(page, base) ==
  [i \in 1..Len(page) |->
     Node(page[i].tag, page[i].cls,
          IF page[i].parent = 0 THEN Document ELSE base + page[i].parent,
          [k \in 1..Cardinality({j \in 1..Len(page) : page[j].parent = i}) |->
             base + (CHOOSE j \in 1..Len(page) :
                       /\ page[j].parent = i
                       /\ Cardinality({h \in 1..(j - 1) : page[h].parent = i}) = k - 1)],
          page[i].value, << >>)]

\* the host renders page: the children of the document are detached and the
\* nodes of the page take their place
Render(d, page) ==
  LET fresh == PageNodes(page, Len(d))
      top == SelectSeq([i \in 1..Len(fresh) |-> Len(d) + i],
                       LAMBDA i : fresh[i - Len(d)].parent = Document)
  IN  [i \in 1..Len(d) |->
         IF i = Document THEN [d[i] EXCEPT !.kids = top]
         ELSE IF d[i].parent = Document THEN [d[i] EXCEPT !.parent = NoNode]
         ELSE d[i]] \o fresh

\* the document before the host has rendered anything
EmptyDocument == <<Node("#document", { }, NoNode, << >>, << >>, << >>)>>

\* the host appends a further code view container to the body (lines loaded as
\* the page moves on): the nodes there already stay in the document
AppendLines(d) ==
  LET b == body(d)
      n == Len(d)
  IN  [i \in 1..n |-> IF i = b THEN [d[i] EXCEPT !.kids = Append(@, n + 1)] ELSE d[i]]
        \o << Node("DIV", {"react-code-lines"}, b, <<n + 2>>, << >>, << >>),
              Node("#text", { }, n + 1, << >>, TextOne, << >>) >>

(***************************************************************************)
(* Delegated handlers                                                      *)
(***************************************************************************)
\* the const injectedLinks of invocation run: every invocation has its own
Registry(links, run) == SelectSeq(links, LAMBDA e : e.run = run)

\* the value findLinkAtPoint returns when no link is at the point: null
Null == << >>

\* points of the viewport: the origin, where no link of the page is, and one
\* within the rectangle of the element e
Origin == [kind |-> "origin", elem |-> NoNode]

Within(e) == [kind |-> "link", elem |-> e]

\* the points the pointer can be at: the links in the document have a rectangle
Points(d, links) ==
  {Origin} \cup
    {Within(links[i].element) : i \in {j \in 1..Len(links) : isConnected(d, links[j].element)}}

\* x >= rect.left && x <= rect.right && y >= rect.top && y <= rect.bottom for
\* rect = e.getBoundingClientRect(): all zeros for an element that is not rendered
rectContains(d, e, point) ==
  IF isConnected(d, e) THEN point = Within(e) ELSE point = Origin

RECURSIVE findLinkFromNoSkip(_, _, _, _)
\* the loop of findLinkAtPoint without the isConnected test
findLinkFromNoSkip(d, reg, point, i) ==
  IF i > Len(reg) THEN Null
  ELSE IF rectContains(d, reg[i].element, point) THEN reg[i].url
  ELSE findLinkFromNoSkip(d, reg, point, i + 1)

\* a findLinkAtPoint that tests the entries out of the document as well
findLinkAtPointNoSkip(d, reg, point) == findLinkFromNoSkip(d, reg, point, 1)

\* a findLinkAtPoint that finds no link
findLinkAtPointNone(d, reg, point) == Null

RECURSIVE findLinkFrom(_, _, _, _)
\* the for loop of findLinkAtPoint from entry i on
findLinkFrom(d, reg, point, i) ==
  IF i > Len(reg) THEN Null
  ELSE IF ~isConnected(d, reg[i].element) THEN findLinkFrom(d, reg, point, i + 1)
  ELSE IF rectContains(d, reg[i].element, point) THEN reg[i].url
  ELSE findLinkFrom(d, reg, point, i + 1)

\* findLinkAtPoint(x, y) on the registry reg
findLinkAtPoint(d, reg, point) == findLinkFrom(d, reg, point, 1)

\* the overlays of the host in the document
Overlays(d) == {n \in 1..Len(d) : d[n].tag = "TEXTAREA" /\ isConnected(d, n)}

\* document.elementFromPoint: over a link the topmost element is the overlay
\* laid over the part of the page the link is in, and the link itself when
\* there is none; elsewhere it is the body
elementFromPoint(d, point) ==
  IF point.kind = "link"
  THEN LET over == {o \in Overlays(d) : point.elem \in Range(Subtree(d, d[o].parent))}
       IN  IF over = { } THEN point.elem
           ELSE CHOOSE o \in over : \A p \in over : p <= o
  ELSE body(d)

\* the click listeners of the host by their place on the path of the event:
\* capturing on window, capturing on document, on the nodes below the
\* document (in either phase), and bubbling on document or window
HostListeners == {"window-capture", "document-capture", "below-document", "bubble"}

\* the listeners of the host a click still reaches when a capturing listener
\* on document calls stopPropagation
StoppedAtDocument == {"window-capture", "document-capture"}

\* the click listeners of the installed handlers hs at point: the URLs given to
\* window.open, in the order of the listeners
onClick(d, hs, links, point) ==
  SelectSeq([i \in 1..Len(hs) |-> findLinkAtPoint(d, Registry(links, hs[i]), point)],
            LAMBDA url : url # Null)

\* element.style.cursor = v
SetCursor(d, e, v) == [d EXCEPT ![e].cursor = v]

\* lastCursorTarget and savedCursor as installDelegatedHandlers declares them
FreshClosure == [last |-> NoNode, saved |-> ""]

\* the mousemove listener with the closure cl and the registry reg at point: the
\* tree and the closure afterwards
onMouseMove(d, cl, reg, point) ==
  LET url == findLinkAtPoint(d, reg, point)
      topEl == elementFromPoint(d, point)
  IN  IF url # Null /\ topEl # NoNode
      THEN IF cl.last # topEl
           THEN LET d1 == IF cl.last # NoNode THEN SetCursor(d, cl.last, cl.saved) ELSE d
                IN  [dom |-> SetCursor(d1, topEl, "pointer"),
                     closure |-> [last |-> topEl, saved |-> d1[topEl].cursor]]
           ELSE [dom |-> d, closure |-> cl]
      ELSE IF cl.last # NoNode
      THEN [dom |-> SetCursor(d, cl.last, cl.saved), closure |-> FreshClosure]
      ELSE [dom |-> d, closure |-> cl]

RECURSIVE dispatchMouseMove(_, _, _, _, _, _)
\* a mousemove at point: the listeners of the installed handlers hs from the
\* i-th on run in the order of their registration
dispatchMouseMove(d, cls, hs, links, point, i) ==
  IF i > Len(hs) THEN [dom |-> d, closures |-> cls]
  ELSE With(onMouseMove(d, cls[i], Registry(links, hs[i]), point), LAMBDA r :
         dispatchMouseMove(r.dom, [cls EXCEPT ![i] = r.closure], hs, links, point, i + 1))

(***************************************************************************)
(* Run Controller                                                          *)
(***************************************************************************)
\* a guard that never fires
alreadyRanNever(r, h) == FALSE

\* the double-run guard: window.__externalDocsUrlBookmarkletRan === location.href
alreadyRan(r, h) == r = h

\* the pointer variables before any handler is installed and any event happens
PointerIdle ==
  /\ closures = << >>
  /\ opened = << >>
  /\ hostRan = { }
  /\ lastEvent = [type |-> "none", point |-> Origin]
  /\ events = 0

\* the values the variables of the two pure-function specifications keep here
PureIdle ==
  /\ bldText = << >>
  /\ bldOut = << >>
  /\ sanIn = << >>
  /\ sanOut = << >>
  /\ scnText = << >>
  /\ scnOut = << >>

Init ==
  /\ docsBaseUrl = DOCS_BASE_URL
  /\ href = "addrA"
  /\ ran = Undefined
  /\ \E page \in Pages : dom = Render(EmptyDocument, page)
  /\ pc = "Idle"
  /\ nodes = << >>
  /\ idx = 1
  /\ replaced = 0
  /\ injectedLinks = << >>
  /\ handlers = << >>
  /\ console = << >>
  /\ invocations = 0
  /\ navigations = 0
  /\ passLog = << >>
  /\ navigated = FALSE
  /\ lastPass = "none"
  /\ skipped = { }
  /\ rendered = FALSE
  /\ failures = 0
  /\ again = FALSE
  /\ PointerIdle
  /\ PureIdle

\* the user runs the bookmarklet: resolveExternalDocsUrls up to the guard and the
\* recording of the Run Identity
Invoke ==
  /\ pc = "Idle"
  /\ invocations < MaxInvocations
  /\ invocations' = invocations + 1
  /\ navigated' = FALSE
  /\ IF alreadyRan(ran, href)
     THEN /\ skipped' = skipped \cup {[after |-> lastPass, navigated |-> navigated]}
          /\ UNCHANGED <<ran, pc, passLog, lastPass, rendered, again>>
     ELSE /\ ran' = href
          /\ pc' = "Scanning"
          /\ passLog' = Append(passLog, href)
          /\ lastPass' = "running"
          /\ rendered' = FALSE
          /\ again' = (lastPass = "done" /\ ~rendered)
          /\ UNCHANGED skipped
  /\ UNCHANGED <<docsBaseUrl, href, dom, nodes, idx, replaced, injectedLinks, handlers,
                 console, navigations, failures, pointerVars, pureVars>>

\* findCodeContainers and collectMatchingNodes
Scan ==
  /\ pc = "Scanning"
  /\ NoNode \notin Range(findCodeContainers(dom))
  /\ nodes' = collectMatchingNodes(dom, findCodeContainers(dom))
  /\ idx' = 1
  /\ replaced' = 0
  /\ pc' = "Replacing"
  /\ UNCHANGED <<docsBaseUrl, href, ran, dom, injectedLinks, handlers, console, invocations,
                 navigations, passLog, navigated, lastPass, skipped, rendered,
                 failures, again, pointerVars, pureVars>>

\* document.body is null: createTreeWalker(null, ...) throws TypeError, caught by
\* the try / catch around resolveExternalDocsUrls and reported with console.error
ScanFails ==
  /\ pc = "Scanning"
  /\ NoNode \in Range(findCodeContainers(dom))
  /\ console' = Append(console, [level |-> "error", count |-> 0, href |-> "", url |-> << >>])
  /\ pc' = "Idle"
  /\ lastPass' = "failed"
  /\ UNCHANGED <<docsBaseUrl, href, ran, dom, nodes, idx, replaced, injectedLinks, handlers,
                 invocations, navigations, passLog, navigated, skipped, rendered,
                 failures, again, pointerVars, pureVars>>

\* one turn of the for loop: replaceTextNodeWithDocsLinks(node) and the count
ReplaceNode ==
  /\ pc = "Replacing"
  /\ idx <= Len(nodes)
  /\ \E r \in {replaceTextNodeWithDocsLinks(dom, nodes[idx], invocations)} :
         /\ dom' = r.dom
         /\ injectedLinks' = injectedLinks \o r.links
         /\ console' = console \o r.warnings
         /\ replaced' = IF r.result THEN replaced + 1 ELSE replaced
  /\ idx' = idx + 1
  /\ UNCHANGED <<docsBaseUrl, href, ran, pc, nodes, handlers, invocations, navigations,
                 passLog, navigated, lastPass, skipped, rendered,
                 failures, again, pointerVars, pureVars>>

\* a turn of the loop whose error ends the pass
ReplaceNodeAborts ==
  /\ pc = "Replacing"
  /\ idx <= Len(nodes)
  /\ failures < MaxFailures
  /\ console' = Append(console, [level |-> "error", count |-> 0, href |-> "", url |-> << >>])
  /\ pc' = "Idle"
  /\ failures' = failures + 1
  /\ lastPass' = "failed"
  /\ UNCHANGED <<docsBaseUrl, href, ran, dom, nodes, idx, replaced, injectedLinks, handlers,
                 invocations, navigations, passLog, navigated, skipped, rendered, again,
                 pointerVars, pureVars>>

\* one turn of the for loop in which a call throws: the catch logs the error
\* and the node counts as not replaced
ReplaceNodeThrows ==
  /\ pc = "Replacing"
  /\ idx <= Len(nodes)
  /\ failures < MaxFailures
  /\ \E at \in ThrowPoints(dom, nodes[idx]) :
       \E r \in {replaceTextNodeThrows(dom, nodes[idx], invocations, at)} :
         /\ dom' = r.dom
         /\ injectedLinks' = injectedLinks \o r.links
         /\ console' = console \o r.warnings
  /\ idx' = idx + 1
  /\ failures' = failures + 1
  /\ lastPass' = "hurt"
  /\ UNCHANGED <<docsBaseUrl, href, ran, pc, nodes, replaced, handlers, invocations,
                 navigations, passLog, navigated, skipped, rendered, again, pointerVars, pureVars>>

\* handlers installed whatever the count
DelegateAlways ==
  /\ pc = "Replacing"
  /\ idx > Len(nodes)
  /\ handlers' = Append(handlers, invocations)
  /\ closures' = Append(closures, FreshClosure)
  /\ pc' = "Reporting"
  /\ UNCHANGED <<docsBaseUrl, href, ran, dom, nodes, idx, replaced, injectedLinks, console,
                 invocations, navigations, passLog, navigated, lastPass, skipped, rendered,
                 failures, again, opened, hostRan, lastEvent, events, pureVars>>

\* after the loop: installDelegatedHandlers() when something was replaced
Delegate ==
  /\ pc = "Replacing"
  /\ idx > Len(nodes)
  /\ handlers' = IF replaced > 0 THEN Append(handlers, invocations) ELSE handlers
  /\ closures' = IF replaced > 0 THEN Append(closures, FreshClosure) ELSE closures
  /\ pc' = "Reporting"
  /\ UNCHANGED <<docsBaseUrl, href, ran, dom, nodes, idx, replaced, injectedLinks, console,
                 invocations, navigations, passLog, navigated, lastPass, skipped, rendered,
                 failures, again, opened, hostRan, lastEvent, events, pureVars>>

\* the summary: console.log of the count and the address
Report ==
  /\ pc = "Reporting"
  /\ console' = Append(console, [level |-> "log", count |-> replaced, href |-> href,
                                 url |-> << >>])
  /\ pc' = "Idle"
  /\ lastPass' = IF lastPass = "hurt" THEN "partial" ELSE "done"
  /\ UNCHANGED <<docsBaseUrl, href, ran, dom, nodes, idx, replaced, injectedLinks, handlers,
                 invocations, navigations, passLog, navigated, skipped, rendered,
                 failures, again, pointerVars, pureVars>>

\* the page address changes and the document stays as it is (history.pushState,
\* a fragment change)
NavigateKeep ==
  /\ pc = "Idle"
  /\ navigations < MaxNavigations
  /\ \E a \in Addresses \ {href} : href' = a
  /\ navigations' = navigations + 1
  /\ navigated' = TRUE
  /\ UNCHANGED <<docsBaseUrl, ran, dom, pc, nodes, idx, replaced, injectedLinks, handlers,
                 console, invocations, passLog, lastPass, skipped, rendered,
                 failures, again, pointerVars, pureVars>>

\* the page address changes and the host renders the page of the new address
\* (navigation of a single-page application: the window object persists)
NavigateRender ==
  /\ pc = "Idle"
  /\ navigations < MaxNavigations
  /\ \E a \in Addresses \ {href} : href' = a
  /\ \E page \in Pages : dom' = Render(dom, page)
  /\ navigations' = navigations + 1
  /\ navigated' = TRUE
  /\ rendered' = TRUE
  /\ UNCHANGED <<docsBaseUrl, ran, pc, nodes, idx, replaced, injectedLinks, handlers,
                 console, invocations, passLog, lastPass, skipped,
                 failures, again, pointerVars, pureVars>>

Next ==
  \/ Invoke
  \/ Scan
  \/ ScanFails
  \/ ReplaceNode
  \/ ReplaceNodeThrows
  \/ Delegate
  \/ Report
  \/ NavigateKeep
  \/ NavigateRender

Spec == Init /\ [][Next]_vars

(***************************************************************************)
(* Specification of the delegated handlers: the passes and the pointer     *)
(* events between them                                                     *)
(***************************************************************************)
\* the page address changes and the host adds a code view container to the
\* document it keeps
NavigateAppend ==
  /\ pc = "Idle"
  /\ navigations < MaxNavigations
  /\ body(dom) # NoNode
  /\ \E a \in Addresses \ {href} : href' = a
  /\ dom' = AppendLines(dom)
  /\ navigations' = navigations + 1
  /\ navigated' = TRUE
  /\ rendered' = TRUE
  /\ UNCHANGED <<docsBaseUrl, ran, pc, nodes, idx, replaced, injectedLinks, handlers,
                 console, invocations, passLog, lastPass, skipped,
                 failures, again, pointerVars, pureVars>>

\* the user clicks at a point: the click listeners of the installed handlers
Click ==
  /\ pc = "Idle"
  /\ handlers # << >>
  /\ events < MaxEvents
  /\ \E point \in Points(dom, injectedLinks) :
       /\ \E urls \in {onClick(dom, handlers, injectedLinks, point)} :
            /\ opened' = urls
            /\ hostRan' = IF urls # << >> THEN StoppedAtDocument ELSE HostListeners
       /\ lastEvent' = [type |-> "click", point |-> point]
  /\ events' = events + 1
  /\ UNCHANGED <<docsBaseUrl, href, ran, dom, pc, nodes, idx, replaced, injectedLinks,
                 handlers, console, invocations, navigations, passLog, navigated, lastPass,
                 skipped, rendered, failures, again, closures, pureVars>>

\* the user moves the pointer to a point: the mousemove listeners of the
\* installed handlers
MouseMove ==
  /\ pc = "Idle"
  /\ handlers # << >>
  /\ events < MaxEvents
  /\ \E point \in Points(dom, injectedLinks) :
       /\ \E r \in {dispatchMouseMove(dom, closures, handlers, injectedLinks, point, 1)} :
            /\ dom' = r.dom
            /\ closures' = r.closures
       /\ lastEvent' = [type |-> "mousemove", point |-> point]
  /\ events' = events + 1
  /\ UNCHANGED <<docsBaseUrl, href, ran, pc, nodes, idx, replaced, injectedLinks,
                 handlers, console, invocations, navigations, passLog, navigated, lastPass,
                 skipped, rendered, failures, again, opened, hostRan, pureVars>>

NextPointer ==
  \/ Invoke
  \/ Scan
  \/ ReplaceNode
  \/ ReplaceNodeThrows
  \/ Delegate
  \/ Report
  \/ NavigateAppend
  \/ Click
  \/ MouseMove

\* the pages the host starts with here: the two containers under an overlay,
\* and the page with neither container nor overlay
InitPointer ==
  /\ Init
  /\ dom \in {Render(EmptyDocument, PageTwo), Render(EmptyDocument, PagePlain)}

SpecPointer == InitPointer /\ [][NextPointer]_vars

(***************************************************************************)
(* Properties of the Run Controller and of the Node Locator                *)
(***************************************************************************)
RECURSIVE HasAncestorTagged(_, _, _)
\* does node n of the tree d have an ancestor, at any depth, whose tag is in tags
HasAncestorTagged(d, n, tags) ==
  IF n = NoNode \/ n = Document THEN FALSE
  ELSE With(d[n].parent, LAMBDA p :
         IF p = NoNode \/ p = Document THEN FALSE
         ELSE d[p].tag \in tags \/ HasAncestorTagged(d, p, tags))

\* the text nodes of the document d
TextNodes(d) == {n \in 1..Len(d) : d[n].tag = "#text" /\ isConnected(d, n)}

\* the elements of the document d that carry a code-view class
CodeViewElements(d) ==
  {e \in 1..Len(d) :
     d[e].tag # "#text" /\ d[e].cls \cap CODE_VIEW_SELECTOR # { } /\ isConnected(d, e)}

\* the text nodes a pass over d has to scan: those below a code-view element, or
\* those below the body when the document has no code-view element
ScopedNodes(d) ==
  IF CodeViewElements(d) # { }
  THEN {n \in TextNodes(d) : \E c \in CodeViewElements(d) : n \in Range(Subtree(d, c))}
  ELSE {n \in TextNodes(d) : body(d) # NoNode /\ n \in Range(Subtree(d, body(d)))}

\* does the text hold a placeholder whose documentation URL is valid
HoldsValidPlaceholder(text) ==
  \E m \in Range(matchAll(text)) : URLParses(DocsUrl(m))

\* a pass has completed on the document as it is now
PassCompleted == pc = "Idle" /\ lastPass = "done" /\ ~rendered

\* the number of passes that ran for the address a
PassesAt(a) == Cardinality({i \in 1..Len(passLog) : passLog[i] = a})

ReEnabledByAddressChange == \A s \in skipped : ~s.navigated

\* C3: an invocation stopped by the guard changes nothing: the document, the
\* registries, the handlers and the console stay as they are and no pass begins,
\* also when the pass before it had failed
GuardedInvocationIsNoOp ==
  [][(invocations' # invocations /\ ran = href) =>
       /\ UNCHANGED <<dom, injectedLinks, handlers, console, ran, nodes, idx, replaced>>
       /\ pc' = "Idle"
       /\ passLog' = passLog]_vars

\* an invocation was stopped by the guard after a pass that had failed, and the
\* console holds the error of that pass alone
GuardedInvocationIsNoOpWitness ==
  /\ \E s \in skipped : s.after = "failed"
  /\ pc = "Idle"
  /\ Len(console) = 1
  /\ console[1].level = "error"

AnchorTextUntouched ==
  [][pc # "Idle" =>
       \A n \in 1..Len(dom) :
         (dom[n].tag = "#text" /\ HasAncestorTagged(dom, n, {"A"})) => dom'[n] = dom[n]]_vars

\* a pass has completed and replaced text, and a text node that holds a full match
\* two levels below an <a> of the page is still in place with its text
AnchorTextUntouchedWitness ==
  /\ PassCompleted
  /\ replaced > 0
  /\ \E n \in TextNodes(dom) :
       /\ HasAncestorTagged(dom, n, {"A"})
       /\ dom[dom[n].parent].tag # "A"
       /\ matchAll(dom[n].value) # << >>

\* C7: no text node with a non-rendered element among its ancestors, at whatever
\* depth, is among the nodes a pass collected for replacement
NonRenderedNeverCollected ==
  pc = "Replacing" =>
    \A i \in idx..Len(nodes) : ~HasAncestorTagged(dom, nodes[i], NON_RENDERED_TAGS)

\* the links of the registry of invocation run that are in the document d
LinksInserted(d, links, run) ==
  Cardinality({i \in 1..Len(links) : links[i].run = run /\ isConnected(d, links[i].element)})

\* C13: the count of the summary is the number of links the pass inserted into
\* the document (stated for the passes in which no node threw)
SummaryCountsLinks ==
  [][(pc = "Reporting" /\ pc' = "Idle" /\ lastPass = "running") =>
       /\ console'[Len(console')].level = "log"
       /\ console'[Len(console')].count = LinksInserted(dom', injectedLinks', invocations)]_vars

\* the changes of position a step may make
PassOrder ==
  { <<"Idle", "Idle">>, <<"Idle", "Scanning">>, <<"Scanning", "Replacing">>,
    <<"Scanning", "Idle">>, <<"Replacing", "Replacing">>, <<"Replacing", "Reporting">>,
    <<"Reporting", "Idle">> }

\* C15: in a pass the address is recorded once, as the pass begins and before the
\* document changes; the candidates are collected once, before the first
\* replacement; the document changes only in the replacement loop; handlers are
\* installed at most once, after the loop and only when something was replaced;
\* the summary is the last step
PassStepsInOrder ==
  [][/\ <<pc, pc'>> \in PassOrder
     /\ ran' # ran => (pc = "Idle" /\ pc' = "Scanning")
     /\ (pc = "Idle" /\ pc' = "Scanning") =>
          (ran' = href /\ dom' = dom /\ injectedLinks' = injectedLinks /\ handlers' = handlers)
     /\ nodes' # nodes => (pc = "Scanning" /\ pc' = "Replacing")
     /\ (pc # "Idle" /\ dom' # dom) =>
          (pc = "Replacing" /\ pc' = "Replacing" /\ idx <= Len(nodes))
     /\ handlers' # handlers =>
          /\ pc = "Replacing" /\ pc' = "Reporting"
          /\ idx > Len(nodes) /\ replaced > 0
          /\ invocations \notin Range(handlers)
          /\ handlers' = Append(handlers, invocations)
     /\ (Len(console') > Len(console) /\ console'[Len(console')].level = "log") =>
          (pc = "Reporting" /\ pc' = "Idle" /\ dom' = dom /\ handlers' = handlers)
     /\ pc = "Reporting" =>
          (pc' = "Idle" /\ Len(console') = Len(console) + 1
             /\ console'[Len(console')].level = "log")]_vars

\* two passes have ended, the first one installed handlers, the second one
\* replaced nothing and installed none
PassStepsInOrderWitness ==
  /\ pc = "Idle"
  /\ lastPass = "done"
  /\ Len(passLog) = 2
  /\ Len(handlers) = 1
  /\ replaced = 0

\* the text nodes of d the filter accepts that are below a code-view element (or
\* below the body when there is none), in document order, each one once
EligibleInOrder(d) ==
  SelectSeq(Subtree(d, Document),
            LAMBDA n : n \in ScopedNodes(d) /\ acceptNode(d, n) = "FILTER_ACCEPT")

\* C18: the nodes the Locator returns are the eligible text nodes of the scanned
\* regions, each one once and in document order, also when regions are nested; the
\* collection leaves the document as it is
LocatorOnceInOrder ==
  [][(pc = "Scanning" /\ pc' = "Replacing") =>
       (dom' = dom /\ nodes' = EligibleInOrder(dom))]_vars

\* the nodes were collected on a page with one code-view container inside another,
\* and a node below the inner one is among them
LocatorOnceInOrderWitness ==
  /\ pc = "Replacing"
  /\ idx = 1
  /\ Len(nodes) >= 2
  /\ \E c \in CodeViewElements(dom) : \E e \in CodeViewElements(dom) \ {c} :
       /\ e \in Range(Subtree(dom, c))
       /\ \E i \in 1..Len(nodes) : nodes[i] \in Range(Subtree(dom, e))

\* C19: a candidate node whose processing throws costs that node alone: the error
\* is logged, the node is not counted, the nodes of the document stay as they
\* were, the loop goes on to the next candidate and ends only when all have been
\* processed, and the only way out of the pass is its summary; a detached text
\* node is left alone
NodeFailureConfined ==
  [][/\ (pc = "Replacing" /\ failures' # failures) =>
          /\ pc' = "Replacing" /\ idx' = idx + 1
          /\ replaced' = replaced /\ nodes' = nodes
          /\ console'[Len(console')] = SkipWarning
          /\ \A n \in 1..Len(dom) : dom'[n] = dom[n]
     /\ (pc = "Replacing" /\ pc' # "Replacing") => (idx > Len(nodes) /\ pc' = "Reporting")
     /\ lastPass = "hurt" =>
          /\ pc \in {"Replacing", "Reporting"}
          /\ \/ lastPass' = "hurt" /\ pc' \in {"Replacing", "Reporting"}
             \/ /\ lastPass' = "partial" /\ pc = "Reporting" /\ pc' = "Idle"
                /\ console' = Append(console, [level |-> "log", count |-> replaced,
                                               href |-> href, url |-> << >>])
     /\ \A n \in 1..Len(dom) :
          (dom[n].tag = "#text" /\ dom[n].parent = NoNode) =>
             replaceTextNodeWithDocsLinks(dom, n, invocations) = Untouched(dom)]_vars

\* a pass has ended whose first candidate threw and stayed in the document, and
\* whose last candidate was replaced after that
NodeFailureConfinedWitness ==
  /\ pc = "Idle"
  /\ lastPass = "partial"
  /\ Len(nodes) >= 2
  /\ dom[nodes[1]].parent # NoNode
  /\ dom[nodes[Len(nodes)]].parent = NoNode
  /\ replaced >= 1
  /\ console[Len(console)].level = "log"

\* C20: a pass over the document as a pass that ended done left it replaces
\* nothing and registers no link; no injected link is inside another hyperlink,
\* and no injected link displays the marker
SecondPassAddsNothing ==
  /\ (again /\ pc \in {"Replacing", "Reporting", "Idle"}) => replaced = 0
  /\ (again /\ pc # "Idle") =>
       \A i \in 1..Len(injectedLinks) : injectedLinks[i].run # invocations
  /\ \A i \in 1..Len(injectedLinks) :
       /\ ~HasAncestorTagged(dom, injectedLinks[i].element, {"A"})
       /\ ~includes(dom[dom[injectedLinks[i].element].kids[1]].value, PLACEHOLDER)

\* a second pass has ended on the document the first pass left: it collected a
\* candidate and replaced nothing
SecondPassAddsNothingWitness ==
  /\ again
  /\ pc = "Idle"
  /\ lastPass = "done"
  /\ Len(passLog) = 2
  /\ injectedLinks # << >>
  /\ Len(nodes) >= 1

(***************************************************************************)
(* Specification of the Replacement Engine on one text                     *)
(***************************************************************************)
\* the values the variables of the Run Controller keep in the pure-function
\* specifications: the script is not running
MachineIdle ==
  /\ href = "addrA"
  /\ ran = Undefined
  /\ dom = EmptyDocument
  /\ pc = "Idle"
  /\ nodes = << >>
  /\ idx = 1
  /\ replaced = 0
  /\ injectedLinks = << >>
  /\ handlers = << >>
  /\ console = << >>
  /\ invocations = 0
  /\ navigations = 0
  /\ passLog = << >>
  /\ navigated = FALSE
  /\ lastPass = "none"
  /\ skipped = { }
  /\ rendered = FALSE
  /\ failures = 0
  /\ again = FALSE
  /\ PointerIdle

\* the documentation roots of the fragment specification: the one of the shipped
\* script, and an empty one, with which the URL of a match is the sanitized path
\* alone and passes validation only if that path happens to start with a scheme
DocsBaseUrls == {DOCS_BASE_URL, << >>}

\* plain pieces of a text: none of them holds a placeholder
PlainTexts == { <<"x">>, <<")", " ">>, <<"/">>, PLACEHOLDER }

\* captured paths of the placeholders of a text
PiecePaths ==
  { <<"a">>, <<"a", "%", "2", "0", "b">>, <<"a", ":", "b">>, <<"r", "#", "f">>,
    <<"%", "2", "F">>, <<"%">> }

\* a piece of a text: a placeholder with its path, or plain text
Pieces ==
  [ph : {TRUE}, s : PiecePaths] \cup [ph : {FALSE}, s : PlainTexts]

\* the characters of a piece
PieceText(p) == IF p.ph THEN PLACEHOLDER \o <<"/">> \o p.s ELSE p.s

\* the text a sequence of pieces spells
TextOf(ps) == Flatten([i \in 1..Len(ps) |-> PieceText(ps[i])])

\* the placeholders of the text are exactly its placeholder pieces: no path runs
\* on into the next piece, and no bare marker is completed by the next piece
WellFormedPieces(ps) ==
  \A i \in 1..(Len(ps) - 1) :
    /\ ps[i].ph => Head(PieceText(ps[i + 1])) \notin PathChars
    /\ (~ps[i].ph /\ ps[i].s = PLACEHOLDER) => Head(PieceText(ps[i + 1])) # "/"

\* the page of the fragment specification: a body whose only child is the text
OneTextPage(text) == << Spot("BODY", { }, 0, << >>), Spot("#text", { }, 1, text) >>

InitBuild ==
  /\ docsBaseUrl \in DocsBaseUrls
  /\ bldText \in {ps \in UNION {[1..n -> Pieces] : n \in 1..MaxPieces} : WellFormedPieces(ps)}
  /\ bldOut = << >>
  /\ sanIn = << >>
  /\ sanOut = << >>
  /\ scnText = << >>
  /\ scnOut = << >>
  /\ MachineIdle

\* buildFragmentFromMatches on the text, and replaceTextNodeWithDocsLinks on a
\* text node that holds it
ApplyBuild ==
  /\ bldOut = << >>
  /\ \E text \in {TextOf(bldText)} :
       bldOut' = << [frag |-> buildFragmentFromMatches(text),
                     res |-> replaceTextNodeWithDocsLinks(
                               Render(EmptyDocument, OneTextPage(text)), 3, 1)] >>
  /\ UNCHANGED <<docsBaseUrl, machineVars, bldText, sanIn, sanOut, scnText, scnOut>>

NextBuild == ApplyBuild

SpecBuild == InitBuild /\ [][NextBuild]_vars

\* the pieces of a fragment by what they display: a link, or text
Shown(ps) ==
  [i \in 1..Len(ps) |->
     [kind |-> IF ps[i].kind = "link" THEN "link" ELSE "text", value |-> ps[i].value]]

RECURSIVE MergedFrom(_, _)
MergedFrom(ps, i) ==
  IF i > Len(ps) THEN << >>
  ELSE With(MergedFrom(ps, i + 1), LAMBDA rest :
         IF ps[i].kind = "text" /\ rest # << >> /\ rest[1].kind = "text"
         THEN <<[kind |-> "text", value |-> ps[i].value \o rest[1].value]>> \o Tail(rest)
         ELSE <<ps[i]>> \o rest)

\* adjacent text pieces joined: what the reader of the fragment sees
Merged(ps) == With(ps, LAMBDA q : MergedFrom(q, 1))

\* the placeholder pieces of a text
Placeholders(ps) == {i \in 1..Len(ps) : ps[i].ph}

\* the text with every placeholder replaced by the link to base + sanitize(path)
AllLinked(ps) ==
  [i \in 1..Len(ps) |->
     IF ps[i].ph
     THEN [kind |-> "link", value |-> docsBaseUrl \o sanitizePath(ps[i].s)]
     ELSE [kind |-> "text", value |-> ps[i].s]]

\* the text with the placeholders whose URL is valid replaced by links, the
\* others left as they were written
ValidLinked(ps) ==
  [i \in 1..Len(ps) |->
     IF ps[i].ph /\ URLParses(docsBaseUrl \o sanitizePath(ps[i].s))
     THEN [kind |-> "link", value |-> docsBaseUrl \o sanitizePath(ps[i].s)]
     ELSE [kind |-> "text", value |-> PieceText(ps[i])]]

\* the children of the body after the replacement, as pieces
BodyShown(d) ==
  [i \in 1..Len(d[body(d)].kids) |->
     With(d[body(d)].kids[i], LAMBDA n :
       IF d[n].tag = "A"
       THEN [kind |-> "link", value |-> d[d[n].kids[1]].value]
       ELSE [kind |-> "text", value |-> d[n].value])]

\* C4: with the shipped documentation root, a text of N well-formed placeholders
\* gives a fragment of exactly N links that reads as the text with every
\* placeholder replaced by base + sanitize(path), all other characters once and
\* in order; a text of no placeholder gives no fragment
FragmentPreservesText ==
  (bldOut # << >> /\ docsBaseUrl = DOCS_BASE_URL) =>
    IF Placeholders(bldText) = { } THEN ~bldOut[1].frag.matched
    ELSE /\ bldOut[1].frag.matched
         /\ Cardinality({i \in 1..Len(bldOut[1].frag.pieces) :
                           bldOut[1].frag.pieces[i].kind = "link"})
              = Cardinality(Placeholders(bldText))
         /\ Merged(Shown(bldOut[1].frag.pieces)) = Merged(AllLinked(bldText))

\* a fragment was built for a text with plain text before, between and after two
\* placeholders, one of them with an escape the sanitizer rewrites
FragmentPreservesTextWitness ==
  /\ bldOut # << >>
  /\ docsBaseUrl = DOCS_BASE_URL
  /\ Len(bldText) = 3
  /\ Placeholders(bldText) = {1, 3}
  /\ bldText[1].s = <<"%", "2", "F">>
  /\ Len(bldOut[1].frag.pieces) = 3

\* C8: every link of the fragment, every link inserted into the document and
\* every registry entry has a URL that passes validation; a match whose URL
\* fails is kept as its original text at its place, with one warning, and the
\* other matches of the text are still replaced
OnlyValidUrlsBecomeLinks ==
  bldOut # << >> =>
    /\ \A i \in 1..Len(bldOut[1].frag.pieces) :
         bldOut[1].frag.pieces[i].kind = "link" => URLParses(bldOut[1].frag.pieces[i].url)
    /\ \A i \in 1..Len(bldOut[1].res.links) : URLParses(bldOut[1].res.links[i].url)
    /\ \A n \in 1..Len(bldOut[1].res.dom) :
         bldOut[1].res.dom[n].tag = "A" => URLParses(bldOut[1].res.dom[n].href)
    /\ Len(bldOut[1].res.links)
         = Cardinality({i \in Placeholders(bldText) :
                          URLParses(docsBaseUrl \o sanitizePath(bldText[i].s))})
    /\ Len(bldOut[1].res.warnings)
         = Cardinality({i \in Placeholders(bldText) :
                          ~URLParses(docsBaseUrl \o sanitizePath(bldText[i].s))})
    /\ Placeholders(bldText) # { } =>
         /\ Merged(Shown(bldOut[1].frag.pieces)) = Merged(ValidLinked(bldText))
         /\ Merged(BodyShown(bldOut[1].res.dom)) = Merged(ValidLinked(bldText))

\* a text whose first placeholder failed validation and was kept, and whose
\* second placeholder was still replaced by a link
OnlyValidUrlsBecomeLinksWitness ==
  /\ bldOut # << >>
  /\ Len(bldOut[1].frag.pieces) = 3
  /\ bldOut[1].frag.pieces[1].kind = "kept"
  /\ bldOut[1].frag.pieces[3].kind = "link"
  /\ Len(bldOut[1].res.links) = 1
  /\ Len(bldOut[1].res.warnings) = 1

(***************************************************************************)
(* Specification of the Path Sanitizer alone                               *)
(***************************************************************************)
\* the units raw paths are built from: single allow-listed characters, escapes of
\* one octet, and UTF-8 escape sequences (well-formed, over-long, surrogate, cut)
PathUnits ==
  { <<"a">>, <<"%">>, <<"2">>, <<"0">>,
    <<"%", "2", "0">>, <<"%", "2", "F">>, <<"%", "2", "3">>,
    <<"%", "2", "5">>, <<"%", "4", "1">>,
    <<"%", "c", "3", "%", "a", "9">>,
    <<"%", "E", "2", "%", "8", "2", "%", "A", "C">>,
    <<"%", "F", "0", "%", "9", "F", "%", "9", "8", "%", "8", "0">>,
    <<"%", "C", "0", "%", "A", "F">>,
    <<"%", "C", "3">>, <<"%", "A", "9">> }

\* the raw paths of the sanitizer specification: one to MaxUnits units in a row
RawPaths ==
  {Flatten(us) : us \in UNION {[1..n -> PathUnits] : n \in 1..MaxUnits}}

InitSanitize ==
  /\ sanIn \in RawPaths
  /\ sanOut = << >>
  /\ docsBaseUrl = DOCS_BASE_URL
  /\ bldText = << >>
  /\ bldOut = << >>
  /\ scnText = << >>
  /\ scnOut = << >>
  /\ MachineIdle

\* sanitizePath applied to the raw path, then to its own result
ApplySanitize ==
  /\ Len(sanOut) < 2
  /\ sanOut' = Append(sanOut, sanitizePath(IF sanOut = << >> THEN sanIn ELSE sanOut[Len(sanOut)]))
  /\ UNCHANGED <<sanIn, docsBaseUrl, machineVars, bldText, bldOut, scnText, scnOut>>

NextSanitize == ApplySanitize

SpecSanitize == InitSanitize /\ [][NextSanitize]_vars

IsHexChar(c) ==
  c \in Digits \cup CharsOf(<<"A", "B", "C", "D", "E", "F", "a", "b", "c", "d", "e", "f">>)

\* is every "%" of s followed by two hexadecimal digits
WellFormedEscapes(s) ==
  \A k \in 1..Len(s) :
    s[k] = "%" => (k + 2 <= Len(s) /\ IsHexChar(s[k + 1]) /\ IsHexChar(s[k + 2]))

RECURSIVE EscapesFrom(_, _)
\* the escapes %XX of s from index k on, left to right
EscapesFrom(s, k) ==
  IF k > Len(s) THEN << >>
  ELSE IF s[k] = "%" /\ k + 2 <= Len(s) /\ IsHexChar(s[k + 1]) /\ IsHexChar(s[k + 2])
    THEN <<SubSeq(s, k, k + 2)>> \o EscapesFrom(s, k + 3)
  ELSE EscapesFrom(s, k + 1)

\* the escape with its hexadecimal digits in upper case
UpperHex(esc) ==
  [i \in 1..Len(esc) |->
     IF esc[i] \in LowerAlpha
     THEN UpperSeq[CHOOSE j \in 1..Len(LowerSeq) : LowerSeq[j] = esc[i]]
     ELSE esc[i]]

\* the escapes of s, left to right, read without regard to the case of their digits
Escapes(s) == With(EscapesFrom(s, 1), LAMBDA es : [i \in 1..Len(es) |-> UpperHex(es[i])])

\* C9: for a raw path whose escapes are all well-formed, every escape of the raw
\* path is in the sanitized path as that same single escape: the escapes of the
\* result are those of the raw path, in order, and no "%" became %25
SanitizeKeepsEscapes ==
  (sanOut # << >> /\ WellFormedEscapes(sanIn)) => Escapes(sanOut[1]) = Escapes(sanIn)

\* C14: for a raw path with a malformed escape sanitizePath returns the raw path
\* as it is, and the URL of the match is the documentation root and the raw path
MalformedPathKept ==
  (sanOut # << >> /\ ~WellFormedEscapes(sanIn)) =>
    /\ sanOut[1] = sanIn
    /\ DocsUrl([path |-> sanIn]) = docsBaseUrl \o sanIn

\* sanitizePath was applied to a path that ends in a lone "%" after a well-formed
\* escape
MalformedPathKeptWitness ==
  /\ sanOut # << >>
  /\ ~WellFormedEscapes(sanIn)
  /\ Escapes(sanIn) # << >>
  /\ sanIn[Len(sanIn)] = "%"

\* C10: sanitize(sanitize(p)) = sanitize(p)
SanitizeIdempotent == Len(sanOut) = 2 => sanOut[2] = sanOut[1]

\* sanitize was applied twice to a path that its first application rewrote
SanitizeIdempotentWitness ==
  /\ Len(sanOut) = 2
  /\ sanOut[1] # sanIn
  /\ Escapes(sanOut[1]) # Escapes(sanIn)

(***************************************************************************)
(* Specification of the Placeholder Scanner alone                          *)
(***************************************************************************)
\* the units the texts of the scanner specification are built from: the marker, a
\* whole placeholder, path characters, characters outside the allow-list
ScanUnits ==
  { PLACEHOLDER, PLACEHOLDER \o <<"/", "a">>, <<"/">>, <<"a">>, <<")">>, <<"$">> }

\* the texts of the scanner specification: one to MaxScan units in a row
ScanTexts == UNION {[1..n -> ScanUnits] : n \in 1..MaxScan}

InitScan ==
  /\ scnText \in ScanTexts
  /\ scnOut = << >>
  /\ docsBaseUrl = DOCS_BASE_URL
  /\ bldText = << >>
  /\ bldOut = << >>
  /\ sanIn = << >>
  /\ sanOut = << >>
  /\ MachineIdle

\* text.matchAll(PLACEHOLDER_PATTERN), consumed to its end
ApplyScan ==
  /\ scnOut = << >>
  /\ \E text \in {Flatten(scnText)} : scnOut' = << [text |-> text, matches |-> matchAll(text)] >>
  /\ UNCHANGED <<docsBaseUrl, machineVars, bldText, bldOut, sanIn, sanOut, scnText>>

NextScan == ApplyScan

SpecScan == InitScan /\ [][NextScan]_vars

\* the marker followed by "/"
MarkerSlash == PLACEHOLDER \o <<"/">>

\* is the marker, "/" and one allow-listed character written at index k of text
PlaceholderAt(text, k) ==
  /\ k + Len(MarkerSlash) <= Len(text)
  /\ SubSeq(text, k, k + Len(MarkerSlash) - 1) = MarkerSlash
  /\ text[k + Len(MarkerSlash)] \in PathChars

\* is m a match of text whose path is the longest run of allow-listed characters
MaximalMatch(text, m) ==
  /\ PlaceholderAt(text, m.index)
  /\ m.all = MarkerSlash \o m.path
  /\ m.index + Len(m.all) - 1 <= Len(text)
  /\ m.all = SubSeq(text, m.index, m.index + Len(m.all) - 1)
  /\ Len(m.path) >= 1
  /\ \A k \in 1..Len(m.path) : m.path[k] \in PathChars
  /\ m.index + Len(m.all) <= Len(text) => text[m.index + Len(m.all)] \notin PathChars

\* C11: every match starts at the marker followed by "/" and captures the longest
\* non-empty run of allow-listed characters, so the character after a match is
\* outside the allow-list; the matches do not overlap and come left to right; there
\* is a match at every index where the marker, "/" and an allow-listed character
\* are written, and at no other index
ScannerMatchesMaximal ==
  scnOut # << >> =>
    /\ \A i \in 1..Len(scnOut[1].matches) :
         /\ MaximalMatch(scnOut[1].text, scnOut[1].matches[i])
         /\ i > 1 => scnOut[1].matches[i].index
                       >= scnOut[1].matches[i - 1].index + Len(scnOut[1].matches[i - 1].all)
    /\ \A k \in 1..Len(scnOut[1].text) :
         PlaceholderAt(scnOut[1].text, k)
           => \E i \in 1..Len(scnOut[1].matches) : scnOut[1].matches[i].index = k

\* a text of two matches: the first one ends before a closing parenthesis, the
\* second one runs on over two path characters to the end of the text
ScannerMatchesMaximalWitness ==
  /\ scnOut # << >>
  /\ Len(scnOut[1].matches) = 2
  /\ scnOut[1].text[scnOut[1].matches[1].index + Len(scnOut[1].matches[1].all)] = ")"
  /\ Len(scnOut[1].matches[2].path) = 2
  /\ scnOut[1].matches[2].index + Len(scnOut[1].matches[2].all) - 1 = Len(scnOut[1].text)

(***************************************************************************)
(* Properties of the delegated handlers                                    *)
(***************************************************************************)
\* the entries of the registry reg that are in the document d and whose
\* rectangle holds point
EntriesAt(d, reg, point) ==
  {i \in 1..Len(reg) : isConnected(d, reg[i].element) /\ point = Within(reg[i].element)}

\* at every point, findLinkAtPoint on the registry of invocation run finds the
\* entry in the document that lies there, and nothing where none lies
FindsConnectedOnly(d, links, run) ==
  \A point \in Points(d, links) :
    LET reg == Registry(links, run)
        at == EntriesAt(d, reg, point)
    IN  IF at = { } THEN findLinkAtPoint(d, reg, point) = Null
        ELSE \E i \in at : findLinkAtPoint(d, reg, point) = reg[i].url

\* C17: the Link Registry only grows, by appending, and only while a pass
\* replaces nodes: no entry is removed or changed.  In every state and for the
\* registry of every invocation, findLinkAtPoint returns the URL of an entry
\* only if its element is in the document: entries out of the document,
\* the links of a node whose replacement failed among them, are passed over
\* and the entries after them are still found.
RegistryAppendOnly ==
  /\ [](\A run \in 1..invocations : FindsConnectedOnly(dom, injectedLinks, run))
  /\ [][/\ Len(injectedLinks') >= Len(injectedLinks)
        /\ SubSeq(injectedLinks', 1, Len(injectedLinks)) = injectedLinks
        /\ (injectedLinks' # injectedLinks => pc = "Replacing")]_vars

\* a click on a link in the document whose registry holds, before it, the link
\* of a node whose replacement failed: the URL of the link was opened
RegistryAppendOnlyWitness ==
  /\ lastEvent.type = "click"
  /\ lastEvent.point.kind = "link"
  /\ \E i, j \in 1..Len(injectedLinks) :
       /\ i < j
       /\ injectedLinks[i].run = injectedLinks[j].run
       /\ ~isConnected(dom, injectedLinks[i].element)
       /\ isConnected(dom, injectedLinks[j].element)
       /\ injectedLinks[j].element = lastEvent.point.elem
       /\ opened = <<injectedLinks[j].url>>

\* the step is a click within the rectangle of a link that is in the document
ClickOnLink ==
  /\ events' = events + 1
  /\ lastEvent'.type = "click"
  /\ lastEvent'.point.kind = "link"

\* the URL of the injected link whose element is e
UrlOf(links, e) == links[CHOOSE i \in 1..Len(links) : links[i].element = e].url

OriginalCursor(d, n) == IF d[n].tag = "TEXTAREA" THEN "text" ELSE ""

\* the cursor is as the pointer at point asks: pointer on the topmost element
\* over a link, and every element as the host styled it elsewhere
CursorFits(d, point) ==
  IF point.kind = "link"
  THEN d[elementFromPoint(d, point)].cursor = "pointer"
  ELSE \A n \in 1..Len(d) : d[n].cursor = OriginalCursor(d, n)

\* C16: after every mousemove, with the handlers of any number of passes
\* installed, the topmost element has the cursor pointer when the pointer is
\* over a connected injected link, and every element has the inline cursor
\* style the host gave it when the pointer is over no link
CursorFollowsPointer ==
  [][(events' = events + 1 /\ lastEvent'.type = "mousemove") =>
       CursorFits(dom', lastEvent'.point)]_vars

====
